---- MODULE Spec2Model ----
(***************************************************************************)
(* PyCloudMonitorDaemon (src/main.py): the connection listener of          *)
(* daemon_main and the per-connection session of handle_client.            *)
(*                                                                         *)
(* A byte string received from a peer is a sequence of chunks.  A chunk is *)
(* a run of bytes of one kind: ASCII whitespace, a multi-byte Unicode      *)
(* space, a byte that is not valid UTF-8, the configured passphrase, some  *)
(* other text, or one JSON document.  Every running session keeps a trace  *)
(* of what it did on its connection, in order.  A handler thread that has  *)
(* returned is gone: its slot is free for the next connection, and its     *)
(* complete trace is kept in `finished` until the next handler returns.    *)
(* Writing the log file (log_message) is taken to succeed.                 *)
(*                                                                         *)
(* Times are whole numbers of a unit the functions on them are scaled to.  *)
(***************************************************************************)
EXTENDS Integers, Sequences, FiniteSets

VARIABLES lstate, pc, action, trace, finished, uptime, boot_file

vars == <<lstate, pc, action, trace, finished, uptime, boot_file>>

\* The host's clock readings and the file of boot times, which the listener
\* and the sessions leave alone.
host == <<uptime, boot_file>>

\* ------------------------------------------------------------- bounds
MaxSessions == 2

Sessions == 1..MaxSessions

\* ------------------------------------------------------------- bytes
WS == "ws"
UWS == "uws"
BAD == "bad"
SECRET == "your_secret_password"
GUESS == "guess"

JUNK == "not json"
DocList == "[1]"
DocEmpty == "{}"
DocInfo == "{\"action\": \"get_system_info\"}"
DocReboot == "{\"action\": \"reboot\"}"
DocUpdate == "{\"action\": \"update\"}"
DocBogus == "{\"action\": \"bogus\"}"
DocNoneStr == "{\"action\": \"None\"}"

JsonDocs == {DocList, DocEmpty, DocInfo, DocReboot, DocUpdate, DocBogus, DocNoneStr}

\* What a peer may send as its password attempt: the passphrase, bare or with
\* a newline or blanks around it, and attempts that are not the passphrase.
PasswordInputs ==
  {<<SECRET>>, <<SECRET, WS>>, <<GUESS>>, <<WS>>, <<SECRET, UWS>>, <<SECRET, GUESS>>,
   <<BAD>>, <<SECRET, BAD>>}

\* What a peer may send as its command.
CommandInputs ==
  {<<d>> : d \in JsonDocs}
    \cup {<<DocInfo, WS>>, <<UWS, DocReboot>>, <<DocInfo, DocInfo>>,
          <<JUNK>>, <<WS>>, <<BAD>>, <<DocUpdate, BAD>>}

RECURSIVE lstrip(_, _)
lstrip(b, white) ==
  IF b # <<>> /\ Head(b) \in white THEN lstrip(Tail(b), white) ELSE b

RECURSIVE rstrip(_, _)
rstrip(b, white) ==
  IF b # <<>> /\ b[Len(b)] \in white THEN rstrip(SubSeq(b, 1, Len(b) - 1), white) ELSE b

\* bytes.strip(): ASCII whitespace only.
bytes_strip(b) == rstrip(lstrip(b, {WS}), {WS})

\* str.strip(): every Unicode whitespace.
str_strip(t) == rstrip(lstrip(t, {WS, UWS}), {WS, UWS})

\* bytes.decode('utf-8') raises UnicodeDecodeError on an invalid byte.
decodes(b) == \A i \in 1..Len(b) : b[i] # BAD

sha256(t) == <<"sha256", t>>

PASSWORD_HASH == sha256(<<SECRET>>)

\* ------------------------------------------------------------- JSON
NONE == "<None>"

\* json.loads: exactly one document parses; anything else is JSONDecodeError.
json_loads_ok(t) == Len(t) = 1 /\ t[1] \in JsonDocs

is_object(doc) == doc # DocList

\* request_data.get("action")
get_action(doc) ==
  CASE doc = DocInfo -> "get_system_info"
    [] doc = DocReboot -> "reboot"
    [] doc = DocUpdate -> "update"
    [] doc = DocBogus -> "bogus"
    [] doc = DocNoneStr -> "None"
    [] OTHER -> NONE

\* f"{action}"
format_action(a) == IF a = NONE THEN "None" ELSE a

\* ------------------------------------------------------------- messages
Raw(text) == [kind |-> "raw", status |-> "", message |-> <<text>>, fields |-> {}]

Response(status, message, fields) ==
  [kind |-> "json", status |-> status, message |-> message, fields |-> fields]

NoMsg == [kind |-> "none", status |-> "", message |-> <<>>, fields |-> {}]

Prompt == Raw("Password: ")
AuthFailed == Raw("Authentication failed.\n")
AuthOk == Raw("Authentication successful. Send JSON command.\n")

InvalidJson == Response("error", <<"Invalid JSON command.">>, {"message"})
CouldNotParse == Response("error", <<"Could not parse command: ", "object has no attribute 'get'">>, {"message"})
UnknownAction(a) == Response("error", <<"Unknown action: ", format_action(a)>>, {"message"})
UnexpectedError == Response("error", <<"An unexpected server error occurred.">>, {"message"})
SystemInfo == Response("success", <<>>, {"data"})
RebootIssued == Response("success", <<"Reboot command issued. Server will shut down.">>, {"message"})
RebootNotFound == Response("error", <<"Reboot command 'sudo' not found on server.">>, {"message"})
RebootFailed == Response("error", <<"Reboot failed: ", "stderr">>, {"message"})
RebootUnexpected == Response("error", <<"An unexpected error occurred during reboot: ", "exception">>, {"message"})
UpdateCompleted == Response("success", <<"Update process completed.">>, {"message", "output", "error"})
UpdateFailed == Response("error", <<"Update process failed.">>, {"message", "output", "error", "return_code"})
UpdateNotFound == Response("error", <<"Update command '", "UnifiedUpdater", "' not found on server.">>, {"message"})
UpdateTimedOut == Response("error", <<"Update process timed out.">>, {"message"})
UpdateUnexpected == Response("error", <<"An unexpected error occurred during update: ", "exception">>, {"message"})

\* ------------------------------------------------------------- trace
Ev(e, m, r) == [ev |-> e, msg |-> m, res |-> r]

\* Outcomes of conn.sendall.
SendResults == {"ok", "timeout", "pipe", "reset", "oserror"}

\* Exceptions of conn.recv (beside data and end of stream).
RecvErrors == {"timeout", "reset", "oserror"}

\* send_response never raises: a failed write is logged and dropped.
SendResponseResults == {"ok", "error"}

send_response(tr, data, r) == Append(tr, Ev("send", data, r))

sendall(tr, data, r) == Append(tr, Ev("send", data, r))

logged_only_but_timeout(exc) == exc \in {"pipe", "reset"}

\* The except clauses of handle_client that only log.
logged_only(exc) == exc \in {"timeout", "pipe", "reset"}

\* The file of boot times: a list that json.load reads, or bytes that it
\* cannot read (nothing, or a list cut short).
Readable(boot_times) == [readable |-> TRUE, boot_times |-> boot_times]

CORRUPT == [readable |-> FALSE, boot_times |-> <<>>]

\* The daemon before its first connection.
DaemonInit ==
  /\ lstate = "init"
  /\ pc = [s \in Sessions |-> "unborn"]
  /\ action = [s \in Sessions |-> NONE]
  /\ trace = [s \in Sessions |-> <<>>]
  /\ finished = [action |-> NONE, trace |-> <<>>]

Init ==
  /\ DaemonInit
  /\ uptime = [now |-> 0, boot |-> 0, asked |-> FALSE, percent |-> 0]
  /\ boot_file = Readable(<<>>)

\* ------------------------------------------------------------- session
conn_close_skipped(tr) == tr

\* The finally clause of handle_client, which every return and every except
\* clause runs into.
conn_close(tr) == Append(tr, Ev("close", NoMsg, "ok"))

\* The session goes on to its next blocking step, or through the finally
\* clause to the end of its thread.
Goto(s, tr, to, a) ==
  /\ UNCHANGED <<lstate, host>>
  /\ IF to = "finally"
     THEN /\ finished' = [action |-> a, trace |-> conn_close(tr)]
          /\ trace' = [trace EXCEPT ![s] = <<>>]
          /\ pc' = [pc EXCEPT ![s] = "unborn"]
          /\ action' = [action EXCEPT ![s] = NONE]
     ELSE /\ trace' = [trace EXCEPT ![s] = tr]
          /\ pc' = [pc EXCEPT ![s] = to]
          /\ action' = [action EXCEPT ![s] = a]
          /\ UNCHANGED finished

Raise_escapes(s, tr, exc, a) ==
  /\ lstate' = "closed"
  /\ finished' = [action |-> a, trace |-> conn_close(tr)]
  /\ trace' = [trace EXCEPT ![s] = <<>>]
  /\ pc' = [pc EXCEPT ![s] = "unborn"]
  /\ action' = [action EXCEPT ![s] = NONE]
  /\ UNCHANGED host

Raise_logs_only(s, tr, exc, a) == Goto(s, tr, "finally", a)

Raise_retries(s, tr, exc, a) ==
  IF logged_only(exc)
  THEN Goto(s, tr, "finally", a)
  ELSE \E r \in SendResponseResults, q \in SendResponseResults :
         Goto(s, send_response(send_response(tr, UnexpectedError, r), UnexpectedError, q),
              "finally", a)

\* An exception reaches the except clauses of handle_client.
Raise(s, tr, exc, a) ==
  IF logged_only(exc)
  THEN Goto(s, tr, "finally", a)
  ELSE \E r \in SendResponseResults :
         Goto(s, send_response(tr, UnexpectedError, r), "finally", a)

verify(attempt) == sha256(attempt) = PASSWORD_HASH

after_verify_unchecked(approved) == "recv_cmd"

after_verify_retry(approved) == IF approved THEN "recv_cmd" ELSE "recv_pw"

\* Where handle_client goes after the digest comparison.
after_verify(approved) == IF approved THEN "recv_cmd" ELSE "finally"

SendPrompt(s) ==
  /\ pc[s] = "prompt"
  /\ \E r \in SendResults :
       LET tr == sendall(trace[s], Prompt, r) IN
       IF r = "ok" THEN Goto(s, tr, "recv_pw", action[s])
       ELSE Raise(s, tr, r, action[s])

RecvPassword(s) ==
  /\ pc[s] = "recv_pw"
  /\ \/ Goto(s, Append(trace[s], Ev("recv_pw", NoMsg, "empty")), "finally", action[s])
     \/ \E e \in RecvErrors :
          Raise(s, Append(trace[s], Ev("recv_pw", NoMsg, e)), e, action[s])
     \/ \E b \in PasswordInputs, r \in SendResults :
          LET got == Append(trace[s], Ev("recv_pw", NoMsg, "data"))
              stripped == bytes_strip(b)
          IN
          IF ~decodes(stripped)
          THEN Raise(s, Append(got, Ev("decode_pw", NoMsg, "error")), "unicode", action[s])
          ELSE LET approved == verify(stripped)
                   checked == Append(got, Ev("verify", NoMsg, IF approved THEN "approved" ELSE "rejected"))
                   to == after_verify(approved)
                   tr == sendall(checked, IF to = "recv_cmd" THEN AuthOk ELSE AuthFailed, r)
               IN
               IF r = "ok" THEN Goto(s, tr, to, action[s])
               ELSE Raise(s, tr, r, action[s])

handler_for_reboot_default(a) ==
  CASE a = "get_system_info" -> "provider"
    [] a = "update" -> "updater"
    [] OTHER -> "reboot_sleep"

\* The dispatch of handle_client: where the session goes for an action.
handler_for(a) ==
  CASE a = "get_system_info" -> "provider"
    [] a = "reboot" -> "reboot_sleep"
    [] a = "update" -> "updater"
    [] OTHER -> "finally"

dispatch_send_unknown_unanswered(tr, a, r) ==
  IF a = "reboot" THEN send_response(tr, RebootIssued, r) ELSE tr

dispatch_send_reboot_unacknowledged(tr, a, r) ==
  IF a \in {"get_system_info", "reboot", "update"} THEN tr
  ELSE send_response(tr, UnknownAction(a), r)

\* What the dispatch sends before the handler blocks or returns.
dispatch_send(tr, a, r) ==
  CASE a = "get_system_info" -> tr
    [] a = "reboot" -> send_response(tr, RebootIssued, r)
    [] a = "update" -> tr
    [] OTHER -> send_response(tr, UnknownAction(a), r)

parse_error_response_same(kind) == InvalidJson

\* The Response of the two except clauses around json.loads and .get.
parse_error_response(kind) ==
  IF kind = "json_error" THEN InvalidJson ELSE CouldNotParse

RecvCommand(s) ==
  /\ pc[s] = "recv_cmd"
  /\ \/ Goto(s, Append(trace[s], Ev("recv_cmd", NoMsg, "empty")), "finally", action[s])
     \/ \E e \in RecvErrors :
          Raise(s, Append(trace[s], Ev("recv_cmd", NoMsg, e)), e, action[s])
     \/ \E b \in CommandInputs, r \in SendResponseResults :
          LET got == Append(trace[s], Ev("recv_cmd", NoMsg, "data")) IN
          IF ~decodes(b)
          THEN Raise(s, Append(got, Ev("decode_cmd", NoMsg, "error")), "unicode", action[s])
          ELSE LET request_str == str_strip(b) IN
               IF ~json_loads_ok(request_str)
               THEN Goto(s, send_response(Append(got, Ev("parse", NoMsg, "json_error")),
                                          parse_error_response("json_error"), r),
                         "finally", action[s])
               ELSE IF ~is_object(request_str[1])
               THEN Goto(s, send_response(Append(got, Ev("parse", NoMsg, "not_object")),
                                          parse_error_response("not_object"), r),
                         "finally", action[s])
               ELSE LET a == get_action(request_str[1])
                        parsed == Append(got, Ev("parse", NoMsg, "ok"))
                    IN Goto(s, dispatch_send(parsed, a, r), handler_for(a), a)

\* handle_get_system_info: the provider returns a snapshot or raises.
ProviderResults == {"ok", "raised"}

GetSystemInfo(s) ==
  /\ pc[s] = "provider"
  /\ \E o \in ProviderResults, r \in SendResponseResults :
       LET tr == Append(trace[s], Ev("provider", NoMsg, o)) IN
       IF o = "ok" THEN Goto(s, send_response(tr, SystemInfo, r), "finally", action[s])
       ELSE Raise(s, tr, "exception", action[s])

\* subprocess.run(["sudo", "reboot", "now"], check=True): returns, or raises
\* FileNotFoundError, CalledProcessError (stderr readable or not as UTF-8), or
\* another exception.
RebootResults == {"ok", "notfound", "failed", "failed_undecodable", "oserror"}

RebootRun(s) ==
  /\ pc[s] = "reboot_sleep"
  /\ \E o \in RebootResults, r \in SendResponseResults :
       LET tr == Append(trace[s], Ev("reboot", NoMsg, o)) IN
       CASE o = "ok" -> Goto(s, tr, "finally", action[s])
         [] o = "notfound" -> Goto(s, send_response(tr, RebootNotFound, r), "finally", action[s])
         [] o = "failed" -> Goto(s, send_response(tr, RebootFailed, r), "finally", action[s])
         [] o = "failed_undecodable" -> Raise(s, tr, "unicode", action[s])
         [] o = "oserror" -> Goto(s, send_response(tr, RebootUnexpected, r), "finally", action[s])

\* subprocess.run(["UnifiedUpdater"], capture_output=True, text=True,
\* check=False, timeout=3600): the updater exits, is not found, times out, or
\* run raises something else (the program cannot be started, or its output
\* is not text in the locale's encoding).
UpdateResults ==
  {"exit_zero", "exit_nonzero", "notfound", "timeout", "oserror",
   "exit_zero_undecodable", "exit_nonzero_undecodable"}

exited_zero(o) == o \in {"exit_zero", "exit_zero_undecodable"}

update_response(o) ==
  CASE o = "exit_zero" -> UpdateCompleted
    [] o = "exit_nonzero" -> UpdateFailed
    [] o = "notfound" -> UpdateNotFound
    [] o = "timeout" -> UpdateTimedOut
    [] OTHER -> UpdateUnexpected

UpdateRun(s) ==
  /\ pc[s] = "updater"
  /\ \E o \in UpdateResults, r \in SendResponseResults :
       Goto(s, send_response(Append(trace[s], Ev("update", NoMsg, o)), update_response(o), r),
            "finally", action[s])

\* ------------------------------------------------------------- listener
Running(s) == pc[s] \notin {"unborn", "orphan", "killed"}

after_bind_error_ignored == "listening"

\* Where daemon_main goes when bind or listen has raised: through the except
\* clause to the finally clause, which closes the socket.
after_bind_error == "closed"

\* bind and listen: both succeed, or one of them raises.
Bind ==
  /\ lstate = "init"
  /\ \E ok \in BOOLEAN : lstate' = IF ok THEN "listening" ELSE "bind_error"
  /\ UNCHANGED <<pc, action, trace, finished, host>>

after_accept_inline(started) == IF started THEN "serving" ELSE "backoff"

\* Where the accept loop goes after an accepted connection: the handler runs
\* in a thread of its own and the loop is back at accept at once, or
\* settimeout or the start of the thread raised and the loop sleeps.
after_accept(started) == IF started THEN "listening" ELSE "backoff"

\* accept, settimeout and the start of the handler's thread; an exception of
\* the last two leaves the connection without a handler.
Accept(s) ==
  /\ lstate = "listening"
  /\ pc[s] = "unborn"
  /\ \A q \in Sessions : q < s => pc[q] # "unborn"
  /\ \E started \in BOOLEAN :
       /\ pc' = [pc EXCEPT ![s] = IF started THEN "prompt" ELSE "orphan"]
       /\ lstate' = after_accept(started)
  /\ UNCHANGED <<action, trace, finished, host>>

\* The except clause of daemon_main has logged a failed bind or listen.
BindFailed ==
  /\ lstate = "bind_error"
  /\ lstate' = after_bind_error
  /\ UNCHANGED <<pc, action, trace, finished, host>>

after_accept_error_fatal == "closed"

\* Where the accept loop goes when accept has raised an Exception: it logs,
\* sleeps a second and goes round again.
after_accept_error == "backoff"

AcceptError ==
  /\ lstate = "listening"
  /\ lstate' = after_accept_error
  /\ UNCHANGED <<pc, action, trace, finished, host>>

Retry ==
  /\ lstate = "backoff"
  /\ lstate' = "listening"
  /\ UNCHANGED <<pc, action, trace, finished, host>>

shutdown_sessions_cancelled(p) ==
  [s \in Sessions |-> IF p[s] \in {"unborn", "orphan", "killed"} THEN p[s] ELSE "killed"]

\* What leaving the accept loop does to the sessions: nothing.
shutdown_sessions(p) == p

\* An exception that is no Exception (KeyboardInterrupt) leaves the accept
\* loop: the finally clause of daemon_main closes the listening socket.
Interrupt ==
  /\ lstate \in {"listening", "backoff"}
  /\ lstate' = "closed"
  /\ pc' = shutdown_sessions(pc)
  /\ UNCHANGED <<action, trace, finished, host>>

\* daemon_main has returned: the interpreter exits and takes the daemon
\* threads with it, wherever they are.
ProcessExit ==
  /\ lstate = "closed"
  /\ lstate' = "exited"
  /\ pc' = [s \in Sessions |-> IF Running(s) THEN "killed" ELSE pc[s]]
  /\ UNCHANGED <<action, trace, finished, host>>

Next ==
  \/ Bind
  \/ BindFailed
  \/ AcceptError
  \/ Retry
  \/ Interrupt
  \/ ProcessExit
  \/ \E s \in Sessions :
       \/ Accept(s)
       \/ SendPrompt(s)
       \/ RecvPassword(s)
       \/ RecvCommand(s)
       \/ GetSystemInfo(s)
       \/ RebootRun(s)
       \/ UpdateRun(s)

Spec == Init /\ [][Next]_vars

\* ------------------------------------------------------------- uptime
\* timedelta(days=7).total_seconds(), in units of a twentieth of the seven
\* days (8.4 hours), so that every percentage of the model is a whole number.
SevenDays == 20

\* The largest reading of the clock and the largest boot time, in the same
\* units.
MaxTime == 50

Times == 0..MaxTime

get_uptime_percentage_last_7_days_unclamped(now, current_boot_time) ==
  IF current_boot_time <= now - SevenDays THEN 100
  ELSE ((now - current_boot_time) * 100) \div SevenDays

\* get_uptime_percentage_last_7_days, of time.time() and psutil.boot_time().
get_uptime_percentage_last_7_days(now, current_boot_time) ==
  LET seven_days_ago == now - SevenDays
      total_time_in_period == SevenDays
      uptime_this_session_in_window ==
        IF now - current_boot_time < 0 THEN 0 ELSE now - current_boot_time
  IN
  IF current_boot_time <= seven_days_ago THEN 100
  ELSE IF total_time_in_period > 0
       THEN (uptime_this_session_in_window * 100) \div total_time_in_period
       ELSE 0

\* Any reading of the clock and any boot time, the percentage not yet asked
\* for.
InitUptime ==
  /\ DaemonInit
  /\ boot_file = Readable(<<>>)
  /\ \E now \in Times, boot \in Times :
       uptime = [now |-> now, boot |-> boot, asked |-> FALSE, percent |-> 0]

Measure ==
  /\ ~uptime.asked
  /\ uptime' = [uptime EXCEPT
                  !.asked = TRUE,
                  !.percent = get_uptime_percentage_last_7_days(uptime.now, uptime.boot)]
  /\ UNCHANGED <<lstate, pc, action, trace, finished, boot_file>>

NextUptime == Measure

SpecUptime == InitUptime /\ [][NextUptime]_vars

\* ------------------------------------------------------------- boot times
\* The 60 seconds of save_boot_time, in units of 30 seconds.
DedupWindow == 2

\* The largest boot time, in the same units.
MaxBootTime == 7

BootTimes == 0..MaxBootTime

abs(x) == IF x < 0 THEN 0 - x ELSE x

\* load_boot_times: the list in the file, or [] when there is no file or the
\* file is not JSON.  (The file that does not exist is the empty list here.)
load_boot_times(file) == IF file.readable THEN file.boot_times ELSE <<>>

\* open(UPTIME_TRACKING_FILE, "w") and json.dump: the list is written; or
\* open raises IOError and the file is as it was; or the write raises IOError
\* after open has truncated the file.
WriteResults == {"ok", "open_failed", "write_failed"}

save_boot_time_always_appends(file, current_boot_time_ts, w) ==
  IF w = "ok" THEN Readable(Append(load_boot_times(file), current_boot_time_ts))
  ELSE IF w = "open_failed" THEN file ELSE CORRUPT

\* save_boot_time: the file it leaves.
save_boot_time(file, current_boot_time_ts, w) ==
  LET boot_times == load_boot_times(file)
      logged == \E i \in 1..Len(boot_times) :
                  abs(boot_times[i] - current_boot_time_ts) < DedupWindow
      to_write == IF ~logged THEN Append(boot_times, current_boot_time_ts) ELSE boot_times
  IN
  CASE w = "ok" -> Readable(to_write)
    [] w = "open_failed" -> file
    [] w = "write_failed" -> CORRUPT

\* No file of boot times yet.
InitBoot ==
  /\ DaemonInit
  /\ uptime = [now |-> 0, boot |-> 0, asked |-> FALSE, percent |-> 0]
  /\ boot_file = Readable(<<>>)

\* A start of the daemon: save_boot_time is the first thing daemon_main does.
DaemonStart ==
  /\ \E current_boot_time_ts \in BootTimes, w \in WriteResults :
       boot_file' = save_boot_time(boot_file, current_boot_time_ts, w)
  /\ UNCHANGED <<lstate, pc, action, trace, finished, uptime>>

NextBoot == DaemonStart

SpecBoot == InitBoot /\ [][NextBoot]_vars

\* ------------------------------------------------------------- claims
\* Every trace there is: of the running sessions, and of the last finished one.
Traces == {trace[s] : s \in Sessions} \cup {finished.trace}

IsSend(x) == x.ev = "send"

IsResponse(x) == x.ev = "send" /\ x.msg.kind = "json"

SendsOf(tr) == SelectSeq(tr, IsSend)

ResponsesOf(tr) == SelectSeq(tr, IsResponse)

At(tr, e) == {i \in 1..Len(tr) : tr[i].ev = e}

Has(tr, e, r) == \E i \in 1..Len(tr) : tr[i].ev = e /\ tr[i].res = r

ApprovedBefore(tr, i) ==
  \E j \in 1..(i - 1) : tr[j].ev = "verify" /\ tr[j].res = "approved"

CommandEvents == {"recv_cmd", "provider", "reboot", "update"}

Closed(tr) == tr # <<>> /\ tr[Len(tr)].ev = "close"

\* C1: no command is read and neither the provider nor an external command is
\* invoked unless the verifier approved the password attempt earlier in the
\* same session; a session whose attempt is rejected, cannot be decoded, or
\* whose peer sends nothing during authentication never reads a command.
C1_AuthBeforeCommand ==
  /\ \A tr \in Traces :
       /\ \A i \in 1..Len(tr) : tr[i].ev \in CommandEvents => ApprovedBefore(tr, i)
       /\ (\/ Has(tr, "verify", "rejected")
           \/ Has(tr, "decode_pw", "error")
           \/ \E i \in At(tr, "recv_pw") : tr[i].res # "data")
          => \A i \in 1..Len(tr) : tr[i].ev \notin CommandEvents
  /\ \A s \in Sessions :
       pc[s] \in {"recv_cmd", "provider", "reboot_sleep", "updater"}
         => ApprovedBefore(trace[s], Len(trace[s]) + 1)

C1_Witness ==
  /\ \E s \in Sessions : pc[s] = "provider" /\ Has(trace[s], "recv_cmd", "data")
  /\ Has(finished.trace, "verify", "rejected")
  /\ Closed(finished.trace)

AllWritesOk(tr) == \A i \in 1..Len(tr) : tr[i].ev = "send" => tr[i].res = "ok"

\* C3: for every non-empty password attempt the verifier does not approve,
\* bytes that are not UTF-8 included, the only thing sent after the prompt is
\* 'Authentication failed.\n', never a structured Response, and the session
\* closes.  (Stated for the sessions all of whose writes succeed.)
C3_OnlyFailureMessage ==
  (/\ Has(finished.trace, "recv_pw", "data")
   /\ ~Has(finished.trace, "verify", "approved")
   /\ AllWritesOk(finished.trace))
    => /\ Len(SendsOf(finished.trace)) = 2
       /\ SendsOf(finished.trace)[2].msg = Raw("Authentication failed.\n")
       /\ ResponsesOf(finished.trace) = <<>>
       /\ Closed(finished.trace)

F == finished.trace

ExternalEvents == {"provider", "reboot", "update"}

NoExternal(tr) == \A i \in 1..Len(tr) : tr[i].ev \notin ExternalEvents

\* C4 as stated: a session whose command was parsed sends exactly one
\* structured Response before it closes, whatever the action and the outcome.
C4_ExactlyOneResponse ==
  Has(F, "parse", "ok") => Len(ResponsesOf(F)) = 1

\* C4 as amended: a session whose command was parsed sends exactly one
\* structured Response before it closes, except a reboot whose external
\* command fails, which sends two: the acknowledgement and then one error
\* Response.  A running session has sent at most one so far.
C4_OneResponseOrRebootFollowUp ==
  /\ Has(F, "parse", "ok") =>
       LET failed == \E i \in At(F, "reboot") : F[i].res # "ok" IN
       /\ Closed(F)
       /\ Len(ResponsesOf(F)) = IF failed THEN 2 ELSE 1
       /\ failed => /\ finished.action = "reboot"
                    /\ ResponsesOf(F)[1].msg.status = "success"
                    /\ ResponsesOf(F)[2].msg.status = "error"
  /\ \A s \in Sessions : Len(ResponsesOf(trace[s])) <= 1

C4_Witness ==
  /\ Has(F, "parse", "ok")
  /\ finished.action = "reboot"
  /\ Len(ResponsesOf(F)) = 2
  /\ Closed(F)

\* C5: the reboot acknowledgement is written before the external command is
\* invoked, the command is invoked at most once, a command that is not found
\* or fails is followed by one error Response and then the close, whether or
\* not that write succeeds, and a command that succeeds by the close alone.
C5_RebootOrder ==
  /\ \A tr \in Traces : \A i \in At(tr, "reboot") :
       /\ At(tr, "reboot") = {i}
       /\ i > 1
       /\ IsResponse(tr[i - 1])
       /\ tr[i - 1].msg.status = "success"
       /\ tr[i - 1].msg.message = <<"Reboot command issued. Server will shut down.">>
  /\ \A s \in Sessions :
       pc[s] = "reboot_sleep" =>
         /\ At(trace[s], "reboot") = {}
         /\ IsResponse(trace[s][Len(trace[s])])
         /\ trace[s][Len(trace[s])].msg.status = "success"
  /\ \A i \in At(F, "reboot") :
       IF F[i].res = "ok"
       THEN Len(F) = i + 1 /\ F[i + 1].ev = "close"
       ELSE /\ Len(F) = i + 2
            /\ IsResponse(F[i + 1])
            /\ F[i + 1].msg.status = "error"
            /\ F[i].res = "notfound" =>
                 F[i + 1].msg.message = <<"Reboot command 'sudo' not found on server.">>
            /\ F[i + 2].ev = "close"

C5_Witness ==
  \E i \in At(F, "reboot") :
    /\ F[i].res = "failed"
    /\ F[i + 1].ev = "send"
    /\ F[i + 1].res = "error"
    /\ Closed(F)

\* C6: for update nothing is sent before the updater has returned, failed to
\* start or timed out; then exactly one Response is sent, with status success
\* iff the updater exited with code zero; a non-zero exit, an updater that is
\* not found and a timeout get three different error Responses.
C6_UpdateResponse ==
  /\ \A s \in Sessions : pc[s] = "updater" => ResponsesOf(trace[s]) = <<>>
  /\ \A i \in At(F, "update") :
       /\ ResponsesOf(SubSeq(F, 1, i)) = <<>>
       /\ Len(ResponsesOf(F)) = 1
       /\ ResponsesOf(F)[1].msg.status = "success" <=> exited_zero(F[i].res)
       /\ F[i].res = "exit_nonzero" => ResponsesOf(F)[1].msg.message = <<"Update process failed.">>
       /\ F[i].res = "timeout" => ResponsesOf(F)[1].msg.message = <<"Update process timed out.">>
       /\ F[i].res = "notfound" =>
            ResponsesOf(F)[1].msg.message \notin {<<"Update process failed.">>, <<"Update process timed out.">>}

ParseFailed(tr) == Has(tr, "parse", "json_error") \/ Has(tr, "parse", "not_object")

\* C7 as stated: a command that is malformed, or that is no message with
\* fields, gets one error Response 'Invalid JSON command.', no provider and
\* no external command, and the connection is closed.
C7_InvalidJsonForEveryParseFailure ==
  ParseFailed(F) =>
    /\ Len(ResponsesOf(F)) = 1
    /\ ResponsesOf(F)[1].msg.status = "error"
    /\ ResponsesOf(F)[1].msg.message = <<"Invalid JSON command.">>
    /\ NoExternal(F)
    /\ Closed(F)

\* C7 as amended: a command that does not parse gets one error Response, no
\* provider and no external command, and the connection is closed; the message
\* is 'Invalid JSON command.' for malformed text, 'Could not parse command:
\* ...' for well-formed text that is no message with fields, and 'An unexpected
\* server error occurred.' for bytes that are not UTF-8.
C7_ParseFailureResponses ==
  (ParseFailed(F) \/ Has(F, "decode_cmd", "error")) =>
    /\ Len(ResponsesOf(F)) = 1
    /\ ResponsesOf(F)[1].msg.status = "error"
    /\ Has(F, "parse", "json_error") =>
         ResponsesOf(F)[1].msg.message = <<"Invalid JSON command.">>
    /\ Has(F, "parse", "not_object") =>
         /\ Len(ResponsesOf(F)[1].msg.message) = 2
         /\ ResponsesOf(F)[1].msg.message[1] = "Could not parse command: "
    /\ Has(F, "decode_cmd", "error") =>
         ResponsesOf(F)[1].msg.message = <<"An unexpected server error occurred.">>
    /\ NoExternal(F)
    /\ Closed(F)

C7_Witness ==
  /\ Has(F, "parse", "not_object")
  /\ Len(ResponsesOf(F)) = 1
  /\ ResponsesOf(F)[1].msg.message[1] = "Could not parse command: "
  /\ Closed(F)

KnownActions == {"get_system_info", "reboot", "update"}

\* C8: a parsed command whose action is none of get_system_info, reboot and
\* update, a command with no action included, gets exactly the error Response
\* 'Unknown action: <value>', and neither the provider nor an external
\* command is invoked.
C8_UnknownAction ==
  /\ (Has(F, "parse", "ok") /\ finished.action \notin KnownActions) =>
       /\ Len(ResponsesOf(F)) = 1
       /\ ResponsesOf(F)[1].msg.status = "error"
       /\ ResponsesOf(F)[1].msg.message =
            <<"Unknown action: ", IF finished.action = NONE THEN "None" ELSE finished.action>>
       /\ NoExternal(F)
       /\ Closed(F)
  /\ \A s \in Sessions :
       pc[s] \in {"provider", "reboot_sleep", "updater"} => action[s] \in KnownActions

C8_Witness ==
  /\ Has(F, "parse", "ok")
  /\ finished.action = NONE
  /\ Len(ResponsesOf(F)) = 1
  /\ ResponsesOf(F)[1].msg.message = <<"Unknown action: ", "None">>

\* C9: when a handler has returned, by whatever path, its connection has been
\* closed, once, as the last thing done on it: nothing is sent after the
\* close, and a handler that is still running has not closed it.
C9_ConnectionReleased ==
  /\ F # <<>> => Closed(F) /\ Cardinality(At(F, "close")) = 1
  /\ \A tr \in Traces : \A i \in At(tr, "close") :
       \A j \in (i + 1)..Len(tr) : tr[j].ev # "send"
  /\ \A s \in Sessions : At(trace[s], "close") = {}

C9_Witness ==
  /\ Has(F, "provider", "raised")
  /\ Closed(F)

SessionStep(s) ==
  \/ SendPrompt(s)
  \/ RecvPassword(s)
  \/ RecvCommand(s)
  \/ GetSystemInfo(s)
  \/ RebootRun(s)
  \/ UpdateRun(s)

\* C10 as stated: no session in flight at shutdown is forcibly cancelled.
C10_NoSessionCancelled ==
  \A s \in Sessions : pc[s] # "killed"

\* C10 as amended: the shutdown closes the listening socket (nothing is
\* accepted afterwards) and leaves every session as it is, able to take its
\* next step; a session is terminated where it stands only by the exit of the
\* process that follows.
C10_ShutdownLeavesSessions ==
  /\ [](lstate = "closed" => \A s \in Sessions : Running(s) => ENABLED SessionStep(s))
  /\ [][/\ (lstate \notin {"closed", "exited"} /\ lstate' = "closed")
             => (pc' = pc /\ trace' = trace /\ finished' = finished)
        /\ lstate \in {"closed", "exited"}
             => \A s \in Sessions : pc[s] = "unborn" => pc'[s] = "unborn"
        /\ \A s \in Sessions :
             (pc[s] # "killed" /\ pc'[s] = "killed")
               => (lstate = "closed" /\ lstate' = "exited")]_vars

C10_Witness ==
  /\ lstate = "exited"
  /\ \E s \in Sessions : pc[s] = "killed" /\ Has(trace[s], "verify", "approved")

\* ---------------------------------------------------- sessions side by side
\* A session waits on its client, on the System Info Provider or on the
\* updater.
Stalled(s) == pc[s] \in {"recv_pw", "recv_cmd", "provider", "updater"}

FreeSlot == \E s \in Sessions : pc[s] = "unborn"

\* The accept loop takes a step of its own.
AcceptLoopStep == AcceptError \/ Retry \/ \E s \in Sessions : Accept(s)

\* The messages a session wrote or tried to write, in order.
MessagesOf(tr) == [i \in 1..Len(SendsOf(tr)) |-> SendsOf(tr)[i].msg]

\* The next step of a session whose client holds the password and asks for
\* get_system_info, with every write and the provider succeeding.
GoodStep(s) ==
  /\ SessionStep(s)
  /\ pc[s] = "prompt" => pc'[s] = "recv_pw"
  /\ pc[s] = "recv_pw" => pc'[s] = "recv_cmd"
  /\ pc[s] = "recv_cmd" => pc'[s] = "provider"
  /\ pc[s] = "provider"
       => /\ pc'[s] = "unborn"
          /\ AllWritesOk(finished'.trace)
          /\ MessagesOf(finished'.trace) = <<Prompt, AuthOk, SystemInfo>>
          /\ Closed(finished'.trace)

\* C11: while a session is stalled (its client idle at a read, or the
\* session inside the updater or the System Info Provider), the accept loop
\* is not held up (it has a step of its own, and accepts a new connection
\* into a session whenever it is at accept), and every other session of a
\* client with the password can take its next step towards the snapshot and
\* the close.
C11_SessionsDoNotBlock ==
  \A s \in Sessions :
    Stalled(s) =>
      /\ lstate \notin {"init", "bind_error", "closed", "exited"} => ENABLED AcceptLoopStep
      /\ (lstate = "listening" /\ FreeSlot)
           => ENABLED (\E q \in Sessions : Accept(q) /\ pc'[q] = "prompt")
      /\ \A q \in Sessions \ {s} :
           pc[q] \in {"prompt", "recv_pw", "recv_cmd", "provider"} => ENABLED GoodStep(q)

C11_Witness ==
  \E s \in Sessions, q \in Sessions :
    /\ pc[s] = "updater"
    /\ pc[q] = "provider"
    /\ lstate = "listening"
    /\ MessagesOf(finished.trace) = <<Prompt, AuthOk, SystemInfo>>

\* ---------------------------------------------------- faults of a session
\* The results of a step that went well.
GoodResults == {"ok", "data", "approved", "exit_zero"}

\* Something went wrong in the session: a transport error or a timeout, a
\* rejected or undecodable password, a malformed command, a failing external
\* command, an exception of the provider.
Faulted(tr) == \E i \in 1..Len(tr) : tr[i].res \notin GoodResults

\* The session has taken a step of its handler (each of them takes it to
\* another place or to its end), as opposed to being ended by the exit of
\* the process.
Moved(s) == Running(s) /\ pc'[s] # pc[s] /\ pc'[s] # "killed"

\* C12: a step of one session, faulty or not, leaves the accept loop where
\* it is and every other session as it is (its place, its action and all it
\* has done so far), and after a session has ended in a fault the accept
\* loop still has its step and still accepts a connection into a session
\* whenever it is at accept.
C12_FaultsStayInside ==
  /\ [](Faulted(F) =>
          /\ lstate \in {"listening", "backoff"} => ENABLED AcceptLoopStep
          /\ (lstate = "listening" /\ FreeSlot)
               => ENABLED (\E q \in Sessions : Accept(q) /\ pc'[q] = "prompt"))
  /\ [][\A s \in Sessions :
          Moved(s) =>
            /\ lstate' = lstate
            /\ \A q \in Sessions \ {s} :
                 pc'[q] = pc[q] /\ trace'[q] = trace[q] /\ action'[q] = action[q]]_vars

C12_Witness ==
  /\ Has(F, "provider", "raised")
  /\ lstate = "listening"
  /\ \E s \in Sessions : pc[s] = "recv_cmd" /\ Has(trace[s], "verify", "approved")

\* ---------------------------------------------------- reads without data
\* The reads of tr that gave nothing: the peer had closed, or the deadline
\* of the connection passed.
EmptyReads(tr) ==
  {i \in 1..Len(tr) : tr[i].ev \in {"recv_pw", "recv_cmd"} /\ tr[i].res \in {"empty", "timeout"}}

\* C13: a read that gives no data, the peer having closed or the deadline
\* having passed, at the password or at the command, is followed by the
\* close and by nothing else: every message of the session precedes the
\* read (the prompt alone at the password, the prompt and the
\* acknowledgement at the command), and neither the provider nor an external
\* command runs.
C13_SilentAbort ==
  /\ \A i \in EmptyReads(F) :
       /\ Len(F) = i + 1
       /\ F[i + 1].ev = "close"
       /\ NoExternal(F)
       /\ MessagesOf(F) = IF F[i].ev = "recv_pw" THEN <<Prompt>> ELSE <<Prompt, AuthOk>>
  /\ \A s \in Sessions : EmptyReads(trace[s]) = {}

C13_Witness ==
  /\ Has(F, "recv_cmd", "timeout")
  /\ Closed(F)

\* ---------------------------------------------------- a Response per command
\* C14: a session that closes without a Response written or tried has
\* decoded no command; a session in which a command was read (the read gave
\* data) tries at least one Response before it closes.
C14_DecodedCommandAnswered ==
  /\ (Closed(F) /\ ResponsesOf(F) = <<>>)
       => (~Has(F, "recv_cmd", "data") /\ At(F, "decode_cmd") = {} /\ At(F, "parse") = {})
  /\ (Closed(F) /\ Has(F, "recv_cmd", "data")) => Len(ResponsesOf(F)) >= 1

C14_Witness ==
  /\ Has(F, "provider", "raised")
  /\ Len(ResponsesOf(F)) = 1
  /\ ResponsesOf(F)[1].res = "error"
  /\ Closed(F)

\* ---------------------------------------------------- errors of accept
\* C15: an error of accept sends the accept loop to its pause and nowhere
\* else, from the pause the loop goes back to accept, and at accept a
\* connection is accepted into a session of its own; this is so however
\* many errors of accept came before, the loop keeping no count of them.
C15_AcceptErrorsSurvived ==
  /\ lstate = "listening"
       => /\ ENABLED (AcceptError /\ lstate' = "backoff")
          /\ ~ENABLED (AcceptError /\ lstate' # "backoff")
  /\ lstate = "backoff"
       => /\ ENABLED (Retry /\ lstate' = "listening")
          /\ ~ENABLED (Retry /\ lstate' # "listening")
  /\ (lstate = "listening" /\ FreeSlot)
       => ENABLED (\E q \in Sessions : Accept(q) /\ pc'[q] = "prompt")

C15_Witness ==
  /\ lstate = "backoff"
  /\ \A s \in Sessions : pc[s] # "orphan"
  /\ \E s \in Sessions : Running(s)
  /\ FreeSlot

\* ---------------------------------------------------- the generic error
\* The writes of the generic error Response in tr.
GenericAt(tr) == {i \in 1..Len(tr) : tr[i].ev = "send" /\ tr[i].msg = UnexpectedError}

\* A write of the command phase (after the command was read) that failed:
\* the connection is dead.
DeadAtDispatch(tr) ==
  \E i \in At(tr, "recv_cmd") : \E j \in (i + 1)..Len(tr) :
    tr[j].ev = "send" /\ tr[j].msg # UnexpectedError /\ tr[j].res # "ok"

\* The failures of the command phase that reach the last except clause of
\* handle_client.
ReachesGeneric(x) ==
  \/ x.ev = "recv_cmd" /\ x.res = "oserror"
  \/ x.ev = "decode_cmd" /\ x.res = "error"
  \/ x.ev = "provider" /\ x.res = "raised"
  \/ x.ev = "reboot" /\ x.res = "failed_undecodable"

C18_BindFailureEndsDaemon ==
  /\ [](lstate = "bind_error" =>
          /\ \A s \in Sessions : pc[s] = "unborn"
          /\ F = <<>>
          /\ ~ENABLED AcceptLoopStep
          /\ ENABLED BindFailed)
  /\ [][/\ lstate = "bind_error" => (lstate' = "closed" /\ pc' = pc /\ trace' = trace)
        /\ lstate \in {"closed", "exited"}
             => /\ lstate' \in {"closed", "exited"}
                /\ \A s \in Sessions : pc[s] = "unborn" => pc'[s] = "unborn"]_vars

C18_Witness ==
  /\ lstate = "bind_error"
  /\ ENABLED (BindFailed /\ lstate' = "closed")
  /\ ~ENABLED AcceptLoopStep

\* ---------------------------------------------------- accepted connections
\* C20 as stated: no accepted connection is left without a handler and
\* unclosed.
C20_NoLeakedConnection ==
  \A s \in Sessions : pc[s] # "orphan"

\* ---------------------------------------------------- the uptime percentage
\* C16: the percentage is between 0 and 100 for every boot time and every
\* reading of the clock, a boot time after the reading included; it is 100
\* exactly when the boot time is at or before the start of the seven days;
\* otherwise it is the time since boot (none, for a boot time after the
\* reading) over the seven days: 0 for a boot at the reading, 50 for a boot
\* three and a half days before it.
C16_UptimePercentage ==
  uptime.asked =>
    LET now == uptime.now
        boot == uptime.boot
        p == uptime.percent
    IN /\ 0 <= p /\ p <= 100
       /\ p = 100 <=> boot <= now - SevenDays
       /\ (now - SevenDays < boot /\ boot <= now) => p * SevenDays = 100 * (now - boot)
       /\ boot > now => p = 0
       /\ boot = now => p = 0
       /\ 2 * (now - boot) = SevenDays => p = 50

C16_Witness ==
  /\ uptime.asked
  /\ uptime.percent = 50
  /\ 2 * (uptime.now - uptime.boot) = SevenDays

\* ---------------------------------------------------- the boot-time record
\* The boot times a start of the daemon finds recorded.
Record == load_boot_times(boot_file)

\* C19 as stated: a start of the daemon, whatever the boot time, leaves the
\* record as it was or with the boot time appended, and appends exactly when
\* no recorded time is within 60 seconds of it; no two recorded times are
\* less than 60 seconds apart.
C19_RecordAppendOnly ==
  /\ \A i \in 1..Len(Record), j \in 1..Len(Record) :
       i # j => abs(Record[i] - Record[j]) >= DedupWindow
  /\ \A c \in BootTimes, w \in WriteResults :
       LET after == load_boot_times(save_boot_time(boot_file, c, w))
           near == \E i \in 1..Len(Record) : abs(Record[i] - c) < DedupWindow
       IN /\ after = Record \/ after = Append(Record, c)
          /\ w = "ok" => (after = Append(Record, c) <=> ~near)

====
